---- MODULE Spec2Model ----
(***************************************************************************)
(* Model of scripts/aws_sso.py: one run of parse_sso_profiles, either      *)
(* called by main() (the executable) or called directly with an explicit   *)
(* config_file argument.                                                   *)
(*                                                                         *)
(* Strings whose characters matter (section names, option values) are      *)
(* sequences of one-character strings; paths are sequences of components.  *)
(* Python's None is the record NoneV, a Python str s is Str(s).            *)
(***************************************************************************)
EXTENDS Integers, Sequences, FiniteSets, TLC

VARIABLES
    caller,        \* "main": the executable; "lib": a direct call of parse_sso_profiles
    arg,           \* the config_file argument of parse_sso_profiles
    env,           \* os.environ: value of AWS_CONFIG_FILE, or NoneV when unset
    fsPath,        \* the one path of the filesystem that may exist
    fsKind,        \* what lives at fsPath: "missing", "file", "dir", "noperm"
    content,       \* the lines of the file at fsPath (when it is a file)
    pc,            \* position of the run
    config_file,   \* local variable config_file after resolution
    config,        \* the ConfigParser object after config.read
    idx,           \* position of the for loop over config.sections()
    sso_profiles,  \* the list being built
    stdout,        \* documents printed to standard output
    stderr,        \* messages written to standard error
    exit           \* process exit status, NoneV while running

vars == <<caller, arg, env, fsPath, fsKind, content, pc, config_file, config,
          idx, sso_profiles, stdout, stderr, exit>>

----------------------------------------------------------------------------
(* Bounds *)

MaxLines == 4          \* longest config file, in lines
MaxPathLines == 2      \* longest config file in the runs that vary the path

----------------------------------------------------------------------------
(* Python values *)

NoneV == [t |-> "None"]
Str(s) == [t |-> "str", s |-> s]

----------------------------------------------------------------------------
(* Character strings used by the code and by the inputs *)

S_default == <<"d","e","f","a","u","l","t">>
S_profile_sp == <<"p","r","o","f","i","l","e"," ">>
S_DEFAULT == <<"D","E","F","A","U","L","T">>
S_dev == <<"d","e","v">>

\* section names the input files draw from
SectionNames ==
    { S_default,
      S_profile_sp \o S_dev,
      <<"p","r","o","f","i","l","e","x">>,
      <<"s","s","o","-","s","e","s","s","i","o","n"," ","f","o","o">>,
      S_DEFAULT }

Keys == {"sso_start_url", "sso_account_id", "sso_role_name", "sso_region",
         "aws_access_key_id"}

\* option lines the input files draw from
OptionLines ==
    { [t |-> "opt", key |-> "sso_start_url", val |-> v] :
          v \in { <<>>, <<"u">>, <<"u","%","%">>, <<"u","%","z">> } }
    \cup { [t |-> "opt", key |-> "sso_account_id", val |-> <<"1">>],
           [t |-> "opt", key |-> "sso_role_name", val |-> <<"R">>],
           [t |-> "opt", key |-> "sso_region", val |-> <<"r">>],
           [t |-> "opt", key |-> "aws_access_key_id", val |-> <<"k">>] }

HeaderLines == { [t |-> "hdr", name |-> n] : n \in SectionNames }

\* a line that is neither a header nor key = value / key: value
JunkLines == { [t |-> "junk"] }

Lines == HeaderLines \cup OptionLines \cup JunkLines

SeqsUpTo(S, n) == UNION { [1..k -> S] : k \in 0..n }

Files == SeqsUpTo(Lines, MaxLines)

PathFiles == SeqsUpTo({ [t |-> "hdr", name |-> S_default],
                        [t |-> "opt", key |-> "sso_start_url", val |-> <<"u">>] },
                      MaxPathLines)

----------------------------------------------------------------------------
(* Paths *)

HomeDir == <<"home", "u">>
DefaultPath == <<"~", ".aws", "config">>

\* values of the config_file argument and of AWS_CONFIG_FILE
PathInputs == { <<"~", "cfg">>, <<"tmp", "cfg">>, <<>> }

\* places where the filesystem may hold something
FsPaths == { HomeDir \o <<".aws", "config">>, HomeDir \o <<"cfg">>, <<"tmp", "cfg">> }

FsKinds == {"missing", "file", "dir", "noperm"}

\* os.path.expanduser: a leading ~ component is replaced by the home directory
expanduser(p) ==
    IF Len(p) > 0 /\ p[1] = "~" THEN HomeDir \o Tail(p) ELSE p

\* os.environ.get('AWS_CONFIG_FILE', '~/.aws/config')
environ_get(e) == IF e = NoneV THEN DefaultPath ELSE e.s

\* lines 29-30: resolution of config_file
ResolvePath(a, e) ==
    IF a = NoneV THEN expanduser(environ_get(e)) ELSE a.s

\* the existence check left out
path_exists_Always(p) == TRUE

\* os.path.exists: true for anything that can be stat'ed, file or not
path_exists(p) == p = fsPath /\ fsKind # "missing"

----------------------------------------------------------------------------
(* configparser.ConfigParser().read(config_file) *)

\* a mapping extended or overwritten at key k
MapPut(m, k, v) == [x \in (DOMAIN m) \cup {k} |-> IF x = k THEN v ELSE m[x]]

EmptyMap == [x \in {} |-> <<>>]

\* the parser before the first line: no sections, no defaults, no current
\* section (cursect is None), nothing added, no deferred error, nothing raised
NewParser ==
    [ sections |-> <<>>,        \* names in order of first appearance
      data     |-> EmptyMap,    \* section name -> (key -> raw value)
      defaults |-> EmptyMap,    \* keys of [DEFAULT]
      cur      |-> "none",      \* "none", "sect" or "default"
      curName  |-> <<>>,
      added    |-> {},          \* elements_added: the <<name, key>> pairs
      deferred |-> FALSE,       \* a ParsingError is pending
      raised   |-> "" ]

\* a parser built with strict=False: a repeated section is reopened
ReadHeader_NonStrict(st, n) ==
    IF n \in DOMAIN st.data
    THEN [st EXCEPT !.cur = "sect", !.curName = n]
    ELSE IF n = S_DEFAULT
    THEN [st EXCEPT !.cur = "default", !.curName = n]
    ELSE [st EXCEPT !.sections = Append(@, n),
                    !.data = MapPut(@, n, EmptyMap),
                    !.cur = "sect", !.curName = n]

\* a [name] line; every section of st.data was added by this read, so a
\* name already there is a duplicate under strict=True (the default)
ReadHeader(st, n) ==
    IF n \in DOMAIN st.data
    THEN [st EXCEPT !.raised = "DuplicateSectionError"]
    ELSE IF n = S_DEFAULT
    THEN [st EXCEPT !.cur = "default", !.curName = n]
    ELSE [st EXCEPT !.sections = Append(@, n),
                    !.data = MapPut(@, n, EmptyMap),
                    !.cur = "sect", !.curName = n]

\* a key = value line
ReadOption(st, k, v) ==
    IF st.cur = "none"
    THEN [st EXCEPT !.raised = "MissingSectionHeaderError"]
    ELSE IF <<st.curName, k>> \in st.added
    THEN [st EXCEPT !.raised = "DuplicateOptionError"]
    ELSE IF st.cur = "default"
    THEN [st EXCEPT !.defaults = MapPut(@, k, v),
                    !.added = @ \cup {<<st.curName, k>>}]
    ELSE [st EXCEPT !.data = MapPut(@, st.curName, MapPut(@[st.curName], k, v)),
                    !.added = @ \cup {<<st.curName, k>>}]

\* a parser that drops the lines it cannot match
ReadJunk_Lenient(st) ==
    IF st.cur = "none"
    THEN [st EXCEPT !.raised = "MissingSectionHeaderError"]
    ELSE st

\* a line that matches neither pattern: fatal before the first header,
\* otherwise recorded and raised at the end of the file
ReadJunk(st) ==
    IF st.cur = "none"
    THEN [st EXCEPT !.raised = "MissingSectionHeaderError"]
    ELSE [st EXCEPT !.deferred = TRUE]

ReadLine(st, ln) ==
    IF ln.t = "hdr" THEN ReadHeader(st, ln.name)
    ELSE IF ln.t = "opt" THEN ReadOption(st, ln.key, ln.val)
    ELSE ReadJunk(st)

RECURSIVE ReadLines(_, _, _)
ReadLines(st, lines, i) ==
    IF st.raised # "" THEN st
    ELSE IF i > Len(lines)
    THEN IF st.deferred THEN [st EXCEPT !.raised = "ParsingError"] ELSE st
    ELSE ReadLines(ReadLine(st, lines[i]), lines, i + 1)

\* config.read(filename): a file that cannot be opened (OSError) is skipped
\* silently and leaves the parser empty
config_read(p) ==
    IF p = fsPath /\ fsKind = "file"
    THEN ReadLines(NewParser, content, 1)
    ELSE NewParser

----------------------------------------------------------------------------
(* config[section]: membership and get with BasicInterpolation *)

\* 'key' in config[section]: the section's own keys and those of [DEFAULT]
has_option(cfg, sect, k) ==
    k \in DOMAIN cfg.data[sect] \/ k \in DOMAIN cfg.defaults

\* BasicInterpolation on a raw value: %% becomes %, any other use of %
\* raises InterpolationSyntaxError (the inputs hold no "%(" reference)
RECURSIVE Interpolate(_, _, _)
Interpolate(raw, i, acc) ==
    IF i > Len(raw) THEN [ok |-> TRUE, s |-> acc]
    ELSE IF raw[i] # "%" THEN Interpolate(raw, i + 1, Append(acc, raw[i]))
    ELSE IF i < Len(raw) /\ raw[i + 1] = "%"
    THEN Interpolate(raw, i + 2, Append(acc, "%"))
    ELSE [ok |-> FALSE, s |-> <<>>]

\* config[section].get(key, None): [ok, v]; ok is FALSE when get raises
section_get(cfg, sect, k) ==
    IF k \in DOMAIN cfg.data[sect]
    THEN LET r == Interpolate(cfg.data[sect][k], 1, <<>>)
         IN  [ok |-> r.ok, v |-> Str(r.s)]
    ELSE IF k \in DOMAIN cfg.defaults
    THEN LET r == Interpolate(cfg.defaults[k], 1, <<>>)
         IN  [ok |-> r.ok, v |-> Str(r.s)]
    ELSE [ok |-> TRUE, v |-> NoneV]

----------------------------------------------------------------------------
(* The loop body of parse_sso_profiles *)

PrefixLen == 8

startswith(s, p) == Len(s) >= Len(p) /\ SubSeq(s, 1, Len(p)) = p

\* the prefix test without the trailing space
ProfileName_NoSpace(section) ==
    IF section = S_default THEN [is |-> TRUE, name |-> S_default]
    ELSE IF startswith(section, <<"p","r","o","f","i","l","e">>)
    THEN [is |-> TRUE, name |-> SubSeq(section, PrefixLen + 1, Len(section))]
    ELSE [is |-> FALSE, name |-> <<>>]

\* lines 50-55: [is a profile section, profile_name]
ProfileName(section) ==
    IF section = S_default THEN [is |-> TRUE, name |-> S_default]
    ELSE IF startswith(section, S_profile_sp)
    THEN [is |-> TRUE, name |-> SubSeq(section, PrefixLen + 1, Len(section))]
    ELSE [is |-> FALSE, name |-> <<>>]

\* line 58
IsSsoSection(cfg, section) == has_option(cfg, section, "sso_start_url")

SsoKeys == <<"sso_account_id", "sso_role_name", "sso_region", "sso_start_url">>

\* lines 62-68: the four gets, in order; any of them may raise
GetsOk(cfg, section) ==
    \A i \in 1..Len(SsoKeys) : section_get(cfg, section, SsoKeys[i]).ok

BuildProfile(cfg, section, profile_name) ==
    [ profile        |-> Str(profile_name),
      sso_account_id |-> section_get(cfg, section, "sso_account_id").v,
      sso_role_name  |-> section_get(cfg, section, "sso_role_name").v,
      sso_region     |-> section_get(cfg, section, "sso_region").v,
      sso_start_url  |-> section_get(cfg, section, "sso_start_url").v ]

----------------------------------------------------------------------------
(* json.dumps and the messages *)

\* the empty case printed with indent=2 like the other
DumpsEmpty_Indented ==
    [ text |-> <<"{", "nl2", "\"profiles\"", ": ", "[", "]", "nl0", "}">>,
      values |-> <<>> ]

\* json.dumps({"profiles": []}): the compact text {"profiles": []}
DumpsEmpty ==
    [ text |-> <<"{", "\"profiles\"", ": ", "[", "]", "}">>, values |-> <<>> ]

\* one token per piece of text; "nl<k>" is a newline followed by k spaces
RECURSIVE DumpsItems(_, _)
DumpsItems(n, i) ==
    IF i > n THEN <<>>
    ELSE <<"nl4", "{",
           "nl6", "\"profile\"", ": ", "value", ",",
           "nl6", "\"sso_account_id\"", ": ", "value", ",",
           "nl6", "\"sso_role_name\"", ": ", "value", ",",
           "nl6", "\"sso_region\"", ": ", "value", ",",
           "nl6", "\"sso_start_url\"", ": ", "value",
           "nl4", "}">>
         \o (IF i < n THEN <<",">> ELSE <<>>)
         \o DumpsItems(n, i + 1)

\* a Python value as JSON: None is null, a str is a quoted string
JsonValue(v) == IF v = NoneV THEN [j |-> "null"] ELSE [j |-> "string", s |-> v.s]

JsonProfile(p) == [k \in DOMAIN p |-> JsonValue(p[k])]

\* json.dumps({"profiles": profiles}, indent=2)
DumpsIndent(profiles) ==
    [ text |-> IF Len(profiles) = 0
               THEN <<"{", "nl2", "\"profiles\"", ": ", "[", "]", "nl0", "}">>
               ELSE <<"{", "nl2", "\"profiles\"", ": ", "[">>
                    \o DumpsItems(Len(profiles), 1)
                    \o <<"nl2", "]", "nl0", "}">>,
      values |-> [i \in 1..Len(profiles) |-> JsonProfile(profiles[i])] ]

NotFoundMessage ==
    [prefix |-> "ERROR:", msg |-> "AWS config file not found", cause |-> ""]

ParseFailedMessage(e) ==
    [prefix |-> "ERROR:", msg |-> "Failed to parse config file", cause |-> e]

\* what the interpreter writes for an exception nobody catches
Traceback(e) ==
    [prefix |-> "Traceback (most recent call last):", msg |-> "", cause |-> e]

----------------------------------------------------------------------------
(* The run *)

DefaultConfigPath == HomeDir \o <<".aws", "config">>

\* runs of the executable over every config file at the default location
InitContent ==
    /\ caller = "main"
    /\ arg = NoneV
    /\ env = NoneV
    /\ fsPath = DefaultConfigPath
    /\ fsKind = "file"
    /\ content \in Files

\* runs of the executable and direct calls over every way of naming the file
InitPath ==
    /\ caller \in {"main", "lib"}
    /\ arg \in IF caller = "main" THEN {NoneV}
               ELSE {NoneV} \cup { Str(p) : p \in PathInputs }
    /\ env \in {NoneV} \cup { Str(p) : p \in PathInputs }
    /\ fsPath \in FsPaths
    /\ fsKind \in FsKinds
    /\ content \in IF fsKind = "file" THEN PathFiles ELSE { <<>> }

Init ==
    /\ InitContent \/ InitPath
    /\ pc = IF caller = "main" THEN "main" ELSE "resolve"
    /\ config_file = NoneV
    /\ config = NewParser
    /\ idx = 1
    /\ sso_profiles = <<>>
    /\ stdout = <<>>
    /\ stderr = <<>>
    /\ exit = NoneV

inputs == <<caller, arg, env, fsPath, fsKind, content>>

\* line 78: main calls parse_sso_profiles()
MainCall ==
    /\ pc = "main"
    /\ pc' = "resolve"
    /\ UNCHANGED <<inputs, config_file, config, idx, sso_profiles,
                   stdout, stderr, exit>>

\* lines 29-30
Resolve ==
    /\ pc = "resolve"
    /\ config_file' = Str(ResolvePath(arg, env))
    /\ pc' = "exists"
    /\ UNCHANGED <<inputs, config, idx, sso_profiles, stdout, stderr, exit>>

\* lines 32-34
CheckExists ==
    /\ pc = "exists"
    /\ IF ~path_exists(config_file.s)
       THEN /\ stderr' = Append(stderr, NotFoundMessage)
            /\ exit' = 1
            /\ pc' = "exited"
       ELSE /\ pc' = "read"
            /\ UNCHANGED <<stderr, exit>>
    /\ UNCHANGED <<inputs, config_file, config, idx, sso_profiles, stdout>>

\* lines 37-44
ReadConfig ==
    /\ pc = "read"
    /\ LET parsed == config_read(config_file.s)
       IN  IF parsed.raised # ""
           THEN /\ stderr' = Append(stderr, ParseFailedMessage(parsed.raised))
                /\ exit' = 1
                /\ pc' = "exited"
                /\ UNCHANGED <<config, idx, sso_profiles>>
           ELSE /\ config' = parsed
                /\ sso_profiles' = <<>>
                /\ idx' = 1
                /\ pc' = "loop"
                /\ UNCHANGED <<stderr, exit>>
    /\ UNCHANGED <<inputs, config_file, stdout>>

\* lines 47-70: one iteration of the for loop
LoopIter ==
    /\ pc = "loop"
    /\ idx <= Len(config.sections)
    /\ LET section == config.sections[idx]
           pn == ProfileName(section)
       IN  IF ~pn.is \/ ~IsSsoSection(config, section)
           THEN /\ idx' = idx + 1
                /\ UNCHANGED <<pc, sso_profiles, stderr, exit>>
           ELSE IF ~GetsOk(config, section)
           THEN /\ stderr' = Append(stderr, Traceback("InterpolationSyntaxError"))
                /\ exit' = 1
                /\ pc' = "exited"
                /\ UNCHANGED <<idx, sso_profiles>>
           ELSE /\ sso_profiles' =
                       Append(sso_profiles, BuildProfile(config, section, pn.name))
                /\ idx' = idx + 1
                /\ UNCHANGED <<pc, stderr, exit>>
    /\ UNCHANGED <<inputs, config_file, config, stdout>>

\* line 72
Return ==
    /\ pc = "loop"
    /\ idx > Len(config.sections)
    /\ pc' = IF caller = "main" THEN "print" ELSE "returned"
    /\ UNCHANGED <<inputs, config_file, config, idx, sso_profiles,
                   stdout, stderr, exit>>

\* lines 80-87
MainPrint ==
    /\ pc = "print"
    /\ stdout' = Append(stdout, IF Len(sso_profiles) = 0
                                THEN DumpsEmpty
                                ELSE DumpsIndent(sso_profiles))
    /\ exit' = 0
    /\ pc' = "exited"
    /\ UNCHANGED <<inputs, config_file, config, idx, sso_profiles, stderr>>

Next ==
    \/ MainCall
    \/ Resolve
    \/ CheckExists
    \/ ReadConfig
    \/ LoopIter
    \/ Return
    \/ MainPrint

Spec == Init /\ [][Next]_vars

----------------------------------------------------------------------------
(* Vocabulary of the properties, stated on the inputs and the outputs *)

FourSsoKeys == {"sso_account_id", "sso_role_name", "sso_region", "sso_start_url"}
FiveKeys == FourSsoKeys \cup {"profile"}

\* the section name is `default` or `profile <rest>`
NamedDefault(s) == s = <<"d","e","f","a","u","l","t">>
NamedProfile(s) ==
    Len(s) >= 8 /\ <<"p","r","o","f","i","l","e"," ">> \o Tail(Tail(Tail(Tail(Tail(Tail(Tail(Tail(s)))))))) = s
RestOf(s) == [i \in 1..(Len(s) - 8) |-> s[i + 8]]

\* the profile name the section stands for
NameFor(s) == IF NamedDefault(s) THEN s ELSE RestOf(s)

\* record r is the record of section s
RecordOf(r, s) ==
    (NamedDefault(s) \/ NamedProfile(s)) /\ r.profile = Str(NameFor(s))

\* parse_sso_profiles has returned its result
Returned == pc \in {"print", "returned"}

\* the resolved path names the object the filesystem holds
ResolvedToFs == config_file # NoneV /\ config_file.s = fsPath

\* the run is past the existence check
PastExists == pc \in {"read", "loop", "print", "returned", "exited"}

\* the run is past config.read
PastRead == pc \in {"loop", "print", "returned", "exited"}

----------------------------------------------------------------------------
(* C1: for every section named `default` or `profile <name>`, a record for *)
(* it is in the result of parse_sso_profiles if and only if the section    *)
(* itself holds an sso_start_url key with a non-empty value.               *)
C1_RecordIffOwnNonEmptyMarker ==
    Returned =>
        \A s \in DOMAIN config.data :
            (NamedDefault(s) \/ NamedProfile(s)) =>
                ( (\E i \in 1..Len(sso_profiles) : RecordOf(sso_profiles[i], s))
                  <=> ( /\ "sso_start_url" \in DOMAIN config.data[s]
                        /\ config.data[s]["sso_start_url"] # <<>> ) )

----------------------------------------------------------------------------
(* C2: every record comes from a section named exactly `default` (profile  *)
(* name `default`) or `profile <rest>` (profile name <rest>); the other    *)
(* sections never yield a record, whatever keys they hold.                 *)
ProfileSectionsSeen ==
    { j \in 1..Len(config.sections) :
         j < idx /\ (NamedDefault(config.sections[j]) \/ NamedProfile(config.sections[j])) }

C2_OnlyProfileSections ==
    /\ \A i \in 1..Len(sso_profiles) :
          \E j \in ProfileSectionsSeen :
              RecordOf(sso_profiles[i], config.sections[j])
    /\ Len(sso_profiles) <= Cardinality(ProfileSectionsSeen)

\* a file with an sso-session section holding sso_start_url and a profile
\* section has been filtered, and only the profile gave a record
C2_Witness ==
    /\ Returned
    /\ \E s \in DOMAIN config.data :
          /\ ~NamedDefault(s) /\ ~NamedProfile(s)
          /\ "sso_start_url" \in DOMAIN config.data[s]
    /\ Len(sso_profiles) = 1
    /\ sso_profiles[1].profile = Str(<<"d","e","v">>)

----------------------------------------------------------------------------
(* C3: every record has exactly the five keys, and each sso_* field is the *)
(* value of the same-named key of the record's source section when the     *)
(* section holds that key, and null when it does not.                      *)
C3_FieldsFromOwnSection ==
    \A i \in 1..Len(sso_profiles) :
        /\ DOMAIN sso_profiles[i] = FiveKeys
        /\ \A s \in DOMAIN config.data :
              RecordOf(sso_profiles[i], s) =>
                 \A k \in FourSsoKeys :
                    sso_profiles[i][k] =
                        IF k \in DOMAIN config.data[s]
                        THEN Str(config.data[s][k])
                        ELSE NoneV

----------------------------------------------------------------------------
(* C4: when the resolved path does not exist, the run exits with status 1, *)
(* one ERROR message is on standard error, standard output is empty, and   *)
(* neither the parse nor the filter has run.                               *)
ResolvedMissing ==
    config_file # NoneV /\ (config_file.s # fsPath \/ fsKind = "missing")

C4_MissingFileFails ==
    (PastExists /\ ResolvedMissing) =>
        /\ pc = "exited"
        /\ exit = 1
        /\ Len(stderr) = 1
        /\ stderr[1].prefix = "ERROR:"
        /\ stdout = <<>>
        /\ config = NewParser
        /\ sso_profiles = <<>>

\* a run of the executable whose path resolved to a place that holds nothing
C4_Witness ==
    /\ caller = "main"
    /\ pc = "exited"
    /\ ResolvedMissing
    /\ exit = 1

----------------------------------------------------------------------------
(* C5: when the file exists and is not valid INI (text before the first    *)
(* section header, or a line that is neither a header nor key = value),    *)
(* the run exits with status 1, the parser's error is on standard error    *)
(* behind `ERROR:`, and standard output stays empty.                       *)
NotIni(lines) ==
    /\ Len(lines) > 0
    /\ \/ lines[1].t # "hdr"
       \/ \E i \in 1..Len(lines) : lines[i].t = "junk"

ParserErrors == {"MissingSectionHeaderError", "ParsingError",
                 "DuplicateSectionError", "DuplicateOptionError"}

C5_ParseErrorFails ==
    (ResolvedToFs /\ fsKind = "file" /\ NotIni(content)) =>
        /\ stdout = <<>>
        /\ sso_profiles = <<>>
        /\ PastRead =>
              /\ pc = "exited"
              /\ exit = 1
              /\ Len(stderr) = 1
              /\ stderr[1].prefix = "ERROR:"
              /\ stderr[1].cause \in ParserErrors

\* a file with a section header followed by a malformed line was rejected
C5_Witness ==
    /\ caller = "main"
    /\ pc = "exited"
    /\ ResolvedToFs /\ fsKind = "file"
    /\ Len(content) >= 2
    /\ content[1].t = "hdr"
    /\ \E i \in 2..Len(content) : content[i].t = "junk"
    /\ stderr = <<ParseFailedMessage("ParsingError")>>

----------------------------------------------------------------------------
----------------------------------------------------------------------------
(* C7: the resolved path is the explicit argument if given, else the value *)
(* of AWS_CONFIG_FILE if set, else ~/.aws/config, and home-directory       *)
(* expansion is applied to it whichever source it came from.               *)
HomeExpanded(p) ==
    IF p # <<>> /\ Head(p) = "~" THEN <<"home", "u">> \o Tail(p) ELSE p

C7_ResolvedAndExpanded ==
    config_file # NoneV =>
        config_file.s = HomeExpanded(IF arg # NoneV THEN arg.s
                                     ELSE IF env # NoneV THEN env.s
                                     ELSE <<"~", ".aws", "config">>)

----------------------------------------------------------------------------
(* C8: every run of the executable ends with status 0 and one document on  *)
(* standard output, or with status 1, one `ERROR:` line on standard error  *)
(* and nothing on standard output; nothing is printed before the file has  *)
(* been read and filtered.                                                 *)
C8_TwoOutcomes ==
    caller = "main" =>
        /\ pc = "exited" =>
              \/ exit = 0 /\ Len(stdout) = 1 /\ stderr = <<>>
              \/ /\ exit = 1
                 /\ stdout = <<>>
                 /\ Len(stderr) = 1
                 /\ stderr[1].prefix = "ERROR:"
        /\ pc # "exited" => stdout = <<>>

----------------------------------------------------------------------------
(* C9: a resolved path that exists but is not a readable file (a directory *)
(* or a file that cannot be opened) fails with the missing-config error    *)
(* instead of going on to the parse.                                       *)
C9_UnreadableIsNotFound ==
    (pc \in {"exited", "returned"} /\ ResolvedToFs /\ fsKind \in {"dir", "noperm"}) =>
        /\ pc = "exited"
        /\ exit = 1
        /\ stderr = <<NotFoundMessage>>
        /\ stdout = <<>>

----------------------------------------------------------------------------
(* C10 as stated: a file whose only irregularity is a section name that    *)
(* occurs more than once does not make the run fail.                       *)
RepeatedSection(lines) ==
    \E i, j \in 1..Len(lines) :
        /\ i < j
        /\ lines[i].t = "hdr" /\ lines[j].t = "hdr"
        /\ lines[i].name = lines[j].name
        /\ lines[i].name # <<"D","E","F","A","U","L","T">>

\* no option is repeated before the next header, no value holds a %
OtherwiseRegular(lines) ==
    /\ Len(lines) > 0
    /\ lines[1].t = "hdr"
    /\ \A i \in 1..Len(lines) : lines[i].t # "junk"
    /\ \A i \in 1..Len(lines) :
          lines[i].t = "opt" => \A c \in 1..Len(lines[i].val) : lines[i].val[c] # "%"
    /\ \A i, j \in 1..Len(lines) :
          (i < j /\ lines[i].t = "opt" /\ lines[j].t = "opt"
                 /\ lines[i].key = lines[j].key)
             => \E h \in (i + 1)..(j - 1) : lines[h].t = "hdr"

C10_DuplicateSectionTolerated ==
    (caller = "main" /\ pc = "exited" /\ ResolvedToFs /\ fsKind = "file"
       /\ RepeatedSection(content) /\ OtherwiseRegular(content))
    => (exit = 0 /\ Len(sso_profiles) <= 1)

(* C10 amended: a file in which a section name other than DEFAULT occurs   *)
(* more than once is rejected: the run exits with status 1, a parser error *)
(* is on standard error behind `ERROR:`, standard output stays empty and   *)
(* no record is produced.                                                  *)
C10_DuplicateSectionRejected ==
    (ResolvedToFs /\ fsKind = "file" /\ RepeatedSection(content)) =>
        /\ stdout = <<>>
        /\ sso_profiles = <<>>
        /\ PastRead =>
              /\ pc = "exited"
              /\ exit = 1
              /\ Len(stderr) = 1
              /\ stderr[1].prefix = "ERROR:"
              /\ stderr[1].cause \in ParserErrors
              /\ OtherwiseRegular(content) =>
                    stderr[1].cause = "DuplicateSectionError"

\* a file with [profile dev] twice, each with its own sso_start_url
C10_Witness ==
    /\ caller = "main"
    /\ pc = "exited"
    /\ ResolvedToFs /\ fsKind = "file"
    /\ RepeatedSection(content) /\ OtherwiseRegular(content)
    /\ Len(content) = 4
    /\ content[2].t = "opt" /\ content[2].key = "sso_start_url"
    /\ content[4].t = "opt" /\ content[4].key = "sso_start_url"
    /\ stderr = <<ParseFailedMessage("DuplicateSectionError")>>

====
